---- MODULE Spec2Model ----
(***************************************************************************)
(* The task lifecycle engine of prismo: TaskManager (registry, bounded     *)
(* asyncio queue, single worker coroutine _execute) and the part of the    *)
(* execution strategies that decides a task's status and error.            *)
(*                                                                         *)
(* The worker is an asyncio coroutine: code between two awaits runs        *)
(* atomically with respect to add/get/list, so one action is one such      *)
(* stretch of code.                                                        *)
(***************************************************************************)
EXTENDS Integers, Sequences, FiniteSets, TLC

\* ---- bounds of the model -------------------------------------------------
NumTasks == 2          \* Task objects the callers hold
MaxAdds == 3           \* add calls in one behaviour of Spec
MaxOver == 2           \* add calls beyond the queue's capacity in SpecSat
HistCap == 6           \* status values the observer of a task records
MaxFairAdds == 2       \* add calls in one behaviour of FairSpec

\* ---- program constants ---------------------------------------------------
MaxSize == 10          \* asyncio.Queue(maxsize=10)

\* TaskStatus
QUEUED == 0
PREPROCESSING == 1
TRAINING == 2
RENDERING == 3
DONE == 4
FAILED == 5

\* Python None, for a str field and for a Task reference
None == "None"

NoTask == 0

Tasks == 1 .. NumTasks

\* Task.id; Task.new draws a fresh uuid4 per object
IdOf(t) == "id-" \o ToString(t)

Ids == {IdOf(t) : t \in Tasks}

\* Task.execution_strategy, fixed when the object is built
StrategyNames == <<"nerfacto", "instant-ngp", "vanilla-nerf">>

StrategyOf(t) == StrategyNames[((t - 1) % 3) + 1]

Stages == {"preprocess", "train", "render"}

\* Task.task_dir / dataset_dir / model_dir / output_video_file
task_dir(t) == "~/tasks/" \o IdOf(t)

dataset_dir(t) == task_dir(t) \o "/dataset"

model_dir(t) == task_dir(t) \o "/model"

output_video_file(t) == task_dir(t) \o "/output/render_output.mp4"

\* " ".join([program, *args]) of each strategy's stage; the three strategies
\* differ in the method name handed to ns-train only
CommandLine(t, stage) ==
    CASE stage = "preprocess" ->
           "python3.8 colmap2nerf.py --run_colmap --colmap_matcher exhaustive --aabb_scale 16"
      [] stage = "train" ->
           "ns-train " \o StrategyOf(t) \o " --data " \o dataset_dir(t)
              \o " --output-dir " \o model_dir(t)
      [] stage = "render" ->
           "ns-render --load-config " \o model_dir(t) \o "/config.yml"
              \o " --traj spiral --output-path " \o output_video_file(t)

\* exit statuses an external program is observed with
ExitCodes == {0, 1}

\* str(RuntimeError) raised by exec_program on a non-zero status
ExitMsg(t, stage, code) ==
    "Program \"" \o CommandLine(t, stage) \o "\" exit with status code "
       \o ToString(code)

\* str(e) of the faults a stage raises before it has a child process:
\* render without a .yml under model_dir, any stage whose program cannot be
\* spawned
NoConfigMsg == "Cannot find config.yml file for ns-render"

SpawnMsg == "[Errno 2] No such file or directory"

FaultMsgs(stage) ==
    IF stage = "render" THEN {NoConfigMsg, SpawnMsg} ELSE {SpawnMsg}

VARIABLES
    tasks,      \* TaskManager.tasks : id -> Task object (None: no entry)
    queue,      \* TaskManager.queue : the Task objects not yet dequeued
    status,     \* Task.status of every Task object
    error,      \* Task.error of every Task object
    pc,         \* where _execute is suspended: "get" or the stage it awaits
    cur,        \* the local `task` of _execute while it runs a task
    child,      \* the process exec_program awaits (None before the spawn)
    procs,      \* the external processes that are alive
    npass,      \* number of tasks the worker has dequeued
    deqs,       \* per Task object, the number of times the worker dequeued it
    nadds,      \* number of add calls made
    last,       \* the last add, get or list call and what it returned
    ev,         \* what ended the last await of the worker
    rets,       \* per Task object, what the latest add of it returned
    admits,     \* per Task object, the number of add calls that returned True
    order,      \* the Task objects in the order of their first admission
    hist,       \* per Task object, the distinct values its status has taken
    rejects,    \* per Task object, the number of add calls that returned False
    run         \* the stages begun and the stages passed since the last dequeue

vars == <<tasks, queue, status, error, pc, cur, child, procs, npass, deqs, nadds,
          last, ev, rets, admits, order, hist, rejects, run>>

\* what the callers have seen of add
obs == <<last, rets, admits, order, rejects>>

NoProc == [task |-> NoTask, stage |-> "none", pass |-> 0]

NoEvent == [kind |-> "none", task |-> NoTask, stage |-> "none", code |-> 0]

Init ==
    /\ tasks = [i \in Ids |-> NoTask]
    /\ queue = << >>
    /\ status = [t \in Tasks |-> QUEUED]
    /\ error = [t \in Tasks |-> None]
    /\ pc = "get"
    /\ cur = NoTask
    /\ child = NoProc
    /\ procs = {}
    /\ npass = 0
    /\ deqs = [t \in Tasks |-> 0]
    /\ nadds = 0
    /\ last = [op |-> "none", arg |-> NoTask, ret |-> FALSE, id |-> None,
               got |-> NoTask, listed |-> {}]
    /\ ev = NoEvent
    /\ rets = [t \in Tasks |-> "none"]
    /\ admits = [t \in Tasks |-> 0]
    /\ order = << >>
    /\ hist = [t \in Tasks |-> <<QUEUED>>]
    /\ rejects = [t \in Tasks |-> 0]
    /\ run = [begun |-> << >>, passed |-> << >>]

\* ---- TaskManager.add / get / list ----------------------------------------

\* a queue whose bound counts the task the worker is running too
full_counting_running(q) ==
    MaxSize > 0 /\ Len(q) + (IF cur # NoTask THEN 1 ELSE 0) >= MaxSize

\* asyncio.Queue.full() as put_nowait consults it
full(q) == MaxSize > 0 /\ Len(q) >= MaxSize

\* the value add returns for a queue q
AddResult(q) == ~ full(q)

\* a put that never raises QueueFull
Enqueue_unbounded(q, t) == Append(q, t)

\* a put that places the task at the front
Enqueue_front(q, t) == IF full(q) THEN q ELSE <<t>> \o q

\* the queue after put_nowait(t): unchanged when QueueFull is raised
Enqueue(q, t) == IF full(q) THEN q ELSE Append(q, t)

\* a registration of Task objects that all carry the same id
Register_colliding(reg, t) == [reg EXCEPT ![IdOf(1)] = t]

\* a registration made only once the put has succeeded
Register_after_put(reg, t) ==
    IF full(queue) THEN reg ELSE [reg EXCEPT ![IdOf(t)] = t]

\* self.tasks[task.id] = task
Register(reg, t) == [reg EXCEPT ![IdOf(t)] = t]

\* a lookup that builds a Task for an id the registry does not hold
get_placeholder(id) ==
    IF id \in Ids THEN CHOOSE t \in Tasks : IdOf(t) = id ELSE NoTask

\* if task_id in self.tasks: return self.tasks[task_id]; else: return None
get(id) == IF id \in {i \in Ids : tasks[i] # NoTask} THEN tasks[id] ELSE NoTask

list == {tasks[i] : i \in {j \in Ids : tasks[j] # NoTask}}

\* an add that waits for room in the queue, as await queue.put would
AddCall_blocking(t, limit) ==
    /\ nadds < limit
    /\ ~ full(queue)
    /\ nadds' = nadds + 1
    /\ tasks' = Register(tasks, t)
    /\ queue' = Append(queue, t)
    /\ last' = [op |-> "add", arg |-> t, ret |-> TRUE,
                id |-> None, got |-> NoTask, listed |-> {}]
    /\ rets' = [rets EXCEPT ![t] = "true"]
    /\ admits' = [admits EXCEPT ![t] = @ + 1]
    /\ order' = IF admits[t] = 0 THEN Append(order, t) ELSE order
    /\ UNCHANGED <<status, error, pc, cur, child, procs, npass, deqs, ev, hist, run,
                   rejects>>

\* TaskManager.add(task)
AddCall(t, limit) ==
    /\ nadds < limit
    /\ nadds' = nadds + 1
    /\ tasks' = Register(tasks, t)
    /\ queue' = Enqueue(queue, t)
    /\ last' = [op |-> "add", arg |-> t, ret |-> AddResult(queue),
                id |-> None, got |-> NoTask, listed |-> {}]
    /\ rets' = [rets EXCEPT ![t] = IF AddResult(queue) THEN "true" ELSE "false"]
    /\ admits' = [admits EXCEPT ![t] = IF AddResult(queue) THEN @ + 1 ELSE @]
    /\ order' = IF AddResult(queue) /\ admits[t] = 0 THEN Append(order, t)
                 ELSE order
    /\ rejects' = [rejects EXCEPT ![t] = IF AddResult(queue) THEN @ ELSE @ + 1]
    /\ UNCHANGED <<status, error, pc, cur, child, procs, npass, deqs, ev, hist, run>>

\* ids a caller asks for: those of the Task objects and one no Task has
QueryIds == Ids \cup {"id-none"}

\* TaskManager.get(task_id), as get_task calls it
Get(id) ==
    /\ last' = [op |-> "get", arg |-> NoTask, ret |-> TRUE, id |-> id,
                got |-> get(id), listed |-> {}]
    /\ UNCHANGED <<tasks, queue, status, error, pc, cur, child, procs, npass, deqs,
                   nadds, ev, rets, admits, order, hist, rejects, run>>

\* TaskManager.list(), as get_tasks calls it
List ==
    /\ last' = [op |-> "list", arg |-> NoTask, ret |-> TRUE, id |-> None,
                got |-> NoTask, listed |-> list]
    /\ UNCHANGED <<tasks, queue, status, error, pc, cur, child, procs, npass, deqs,
                   nadds, ev, rets, admits, order, hist, rejects, run>>

\* ---- TaskManager._execute -------------------------------------------------

\* a worker that goes from preprocess straight to render
NextPc_skip(p) ==
    CASE p = "preprocess" -> "render"
      [] p = "train" -> "render"
      [] p = "render" -> "get"

\* the statement after a stage's wait_for returned
NextPc(p) ==
    CASE p = "preprocess" -> "train"
      [] p = "train" -> "render"
      [] p = "render" -> "get"

NextStatus(p) ==
    CASE p = "preprocess" -> TRAINING
      [] p = "train" -> RENDERING
      [] p = "render" -> DONE

\* the stage name looked up after the status was overwritten
TimeoutSuffix_stale(s) == ""

\* the except asyncio.TimeoutError branch: the message is built from the
\* status the task has when the exception arrives
TimeoutSuffix(s) ==
    CASE s = PREPROCESSING -> "preprocessing"
      [] s = TRAINING -> "training"
      [] s = RENDERING -> "rendering"
      [] OTHER -> ""

TimeoutMsg(s) == "Timeout on " \o TimeoutSuffix(s)

\* the observer of a task's status: a new value is appended to what it has
\* recorded, up to HistCap values
Observe(h, s) ==
    IF Len(h) < HistCap /\ h[Len(h)] # s THEN Append(h, s) ELSE h

\* task.status = s
SetStatus(t, s) ==
    /\ status' = [status EXCEPT ![t] = s]
    /\ hist' = [hist EXCEPT ![t] = Observe(@, s)]

\* a get that hands out the first item and leaves it in the queue
QueueGet_peek(q) == [item |-> Head(q), rest |-> q]

\* a queue that hands out the task put last
QueueGet_lifo(q) ==
    [item |-> q[Len(q)], rest |-> SubSeq(q, 1, Len(q) - 1)]

\* self.queue.get() on a queue that is not empty: the item and what is left
QueueGet(q) == [item |-> Head(q), rest |-> Tail(q)]

\* task = await self.queue.get(); task.status = PREPROCESSING; wait_for(...)
Dequeue ==
    /\ pc = "get"
    /\ queue # << >>
    /\ cur' = QueueGet(queue).item
    /\ queue' = QueueGet(queue).rest
    /\ SetStatus(QueueGet(queue).item, PREPROCESSING)
    /\ pc' = "preprocess"
    /\ child' = NoProc
    /\ npass' = npass + 1
    /\ deqs' = [deqs EXCEPT ![QueueGet(queue).item] = @ + 1]
    /\ ev' = [kind |-> "dequeue", task |-> QueueGet(queue).item,
              stage |-> "none", code |-> 0]
    /\ run' = [begun |-> <<"preprocess">>, passed |-> << >>]
    /\ UNCHANGED <<tasks, error, procs, nadds, obs>>

\* exec_program up to create_subprocess_exec: the stage has a child now
Spawn ==
    /\ pc \in Stages
    /\ child = NoProc
    /\ LET p == [task |-> cur, stage |-> pc, pass |-> npass]
       IN /\ child' = p
          /\ procs' = procs \cup {p}
    /\ ev' = [kind |-> "spawn", task |-> cur, stage |-> pc, code |-> 0]
    /\ UNCHANGED <<tasks, queue, status, error, pc, cur, npass, deqs, nadds, obs,
                   hist, run>>

\* a handler that records the failure and lets the exception end _execute
Fail_reraise(msg) ==
    /\ error' = [error EXCEPT ![cur] = msg]
    /\ SetStatus(cur, FAILED)
    /\ pc' = "stopped"
    /\ cur' = NoTask
    /\ child' = NoProc
    /\ UNCHANGED run

\* a handler that records the error and leaves the status as it is
Fail_keeps_status(msg) ==
    /\ error' = [error EXCEPT ![cur] = msg]
    /\ UNCHANGED <<status, hist>>
    /\ pc' = "get"
    /\ cur' = NoTask
    /\ child' = NoProc
    /\ UNCHANGED run

\* the except Exception branch
Fail(msg) ==
    /\ error' = [error EXCEPT ![cur] = msg]
    /\ SetStatus(cur, FAILED)
    /\ pc' = "get"
    /\ cur' = NoTask
    /\ child' = NoProc
    /\ UNCHANGED run

\* a stage whose fault arrives after its program was started
Fault_spawned ==
    /\ pc \in Stages
    /\ child = NoProc
    /\ \E msg \in FaultMsgs(pc) : Fail(msg)
    /\ ev' = [kind |-> "fault", task |-> cur, stage |-> pc, code |-> 0]
    /\ procs' = procs \cup {[task |-> cur, stage |-> pc, pass |-> npass]}
    /\ UNCHANGED <<tasks, queue, npass, deqs, nadds, obs>>

\* a stage raises before it has a child
Fault ==
    /\ pc \in Stages
    /\ child = NoProc
    /\ \E msg \in FaultMsgs(pc) : Fail(msg)
    /\ ev' = [kind |-> "fault", task |-> cur, stage |-> pc, code |-> 0]
    /\ UNCHANGED <<tasks, queue, procs, npass, deqs, nadds, obs>>

\* a success path that also resets task.error
Advance_clears ==
    /\ SetStatus(cur, NextStatus(pc))
    /\ pc' = NextPc(pc)
    /\ cur' = IF NextPc(pc) = "get" THEN NoTask ELSE cur
    /\ child' = NoProc
    /\ run' = [begun |-> IF NextPc(pc) = "get" THEN run.begun
                          ELSE Append(run.begun, NextPc(pc)),
               passed |-> Append(run.passed, pc)]
    /\ error' = [error EXCEPT ![cur] = None]

\* the status = next / DONE assignment after a stage returned
Advance ==
    /\ SetStatus(cur, NextStatus(pc))
    /\ pc' = NextPc(pc)
    /\ cur' = IF NextPc(pc) = "get" THEN NoTask ELSE cur
    /\ child' = NoProc
    /\ run' = [begun |-> IF NextPc(pc) = "get" THEN run.begun
                          ELSE Append(run.begun, NextPc(pc)),
               passed |-> Append(run.passed, pc)]
    /\ UNCHANGED error

\* exec_program without the test of the exit status
Exit_unchecked(code) ==
    /\ pc \in Stages
    /\ child # NoProc
    /\ procs' = procs \ {child}
    /\ Advance
    /\ ev' = [kind |-> "exit", task |-> cur, stage |-> pc, code |-> code]
    /\ UNCHANGED <<tasks, queue, npass, deqs, nadds, obs>>

\* proc.wait() returns
Exit(code) ==
    /\ pc \in Stages
    /\ child # NoProc
    /\ procs' = procs \ {child}
    /\ IF code = 0 THEN Advance ELSE Fail(ExitMsg(cur, pc, code))
    /\ ev' = [kind |-> "exit", task |-> cur, stage |-> pc, code |-> code]
    /\ UNCHANGED <<tasks, queue, npass, deqs, nadds, obs>>

\* wait_for gives up: the stage coroutine is cancelled, nothing signals the
\* child process
Timeout ==
    /\ pc \in Stages
    /\ error' = [error EXCEPT ![cur] = TimeoutMsg(status[cur])]
    /\ SetStatus(cur, FAILED)
    /\ pc' = "get"
    /\ cur' = NoTask
    /\ child' = NoProc
    /\ ev' = [kind |-> "timeout", task |-> cur, stage |-> pc, code |-> 0]
    /\ UNCHANGED <<tasks, queue, procs, npass, deqs, nadds, obs, run>>

\* a process nobody awaits any more ends by itself
OrphanExit ==
    /\ \E p \in procs :
          /\ p # child
          /\ procs' = procs \ {p}
    /\ UNCHANGED <<tasks, queue, status, error, pc, cur, child, npass, deqs, nadds,
                   obs, ev, hist, run>>

Add(t) == AddCall(t, MaxAdds)

Next ==
    \/ \E t \in Tasks : Add(t)
    \/ Dequeue
    \/ Spawn
    \/ Fault
    \/ \E code \in ExitCodes : Exit(code)
    \/ Timeout
    \/ OrphanExit

Spec == Init /\ [][Next]_vars

\* one resumption of _execute: the event loop resumes the worker whenever
\* what it awaits is ready, and wait_for ends every await of a stage
WorkerStep ==
    \/ Dequeue
    \/ Spawn
    \/ Fault
    \/ \E code \in ExitCodes : Exit(code)
    \/ Timeout

AddFair(t) == AddCall(t, MaxFairAdds)

NextFair ==
    \/ \E t \in Tasks : AddFair(t)
    \/ Dequeue
    \/ Spawn
    \/ Fault
    \/ \E code \in ExitCodes : Exit(code)
    \/ Timeout
    \/ OrphanExit

FairSpec == Init /\ [][NextFair]_vars /\ WF_vars(WorkerStep)

\* the same with callers that also read the registry
NextApi ==
    \/ \E t \in Tasks : Add(t)
    \/ Dequeue
    \/ Spawn
    \/ Fault
    \/ \E code \in ExitCodes : Exit(code)
    \/ Timeout
    \/ OrphanExit
    \/ \E id \in QueryIds : Get(id)
    \/ List

SpecApi == Init /\ [][NextApi]_vars

\* A burst of add calls by two callers that saturates the queue, with
\* external tools that all exit with status 0 in time
SatTasks == {1, NumTasks}

AddSat(t) == AddCall(t, MaxSize + MaxOver)

NextSat ==
    \/ \E t \in SatTasks : AddSat(t)
    \/ Dequeue
    \/ Spawn
    \/ Exit(0)

SpecSat == Init /\ [][NextSat]_vars

\* ---- the except branches, one field write per step ----------------------
\* pc "timeout": after task.error = "Timeout on "; pc "except": after the
\* error is complete and before task.status = FAILED
HandlerPcs == {"timeout", "except"}

\* an except branch that marks the task FAILED before it records the error
WriteError_status_first(msg) ==
    /\ SetStatus(cur, FAILED)
    /\ pc' = "except"
    /\ child' = NoProc
    /\ UNCHANGED <<error, cur, run>>

\* except Exception as e: task.error = str(e)
WriteError(msg) ==
    /\ error' = [error EXCEPT ![cur] = msg]
    /\ pc' = "except"
    /\ child' = NoProc
    /\ UNCHANGED <<status, hist, cur, run>>

\* a stage raises before it has a child, up to the write of task.error
FaultFine ==
    /\ pc \in Stages
    /\ child = NoProc
    /\ \E msg \in FaultMsgs(pc) : WriteError(msg)
    /\ ev' = [kind |-> "fault", task |-> cur, stage |-> pc, code |-> 0]
    /\ UNCHANGED <<tasks, queue, procs, npass, deqs, nadds, obs>>

\* proc.wait() returns, up to the next write of a task field
ExitFine(code) ==
    /\ pc \in Stages
    /\ child # NoProc
    /\ procs' = procs \ {child}
    /\ IF code = 0 THEN Advance ELSE WriteError(ExitMsg(cur, pc, code))
    /\ ev' = [kind |-> "exit", task |-> cur, stage |-> pc, code |-> code]
    /\ UNCHANGED <<tasks, queue, npass, deqs, nadds, obs>>

\* except asyncio.TimeoutError: task.error = "Timeout on "
TimeoutFine ==
    /\ pc \in Stages
    /\ error' = [error EXCEPT ![cur] = "Timeout on "]
    /\ pc' = "timeout"
    /\ child' = NoProc
    /\ ev' = [kind |-> "timeout", task |-> cur, stage |-> pc, code |-> 0]
    /\ UNCHANGED <<tasks, queue, status, hist, cur, procs, npass, deqs, nadds, obs,
                   run>>

\* the if/elif on task.status: task.error += the stage's name
TimeoutName ==
    /\ pc = "timeout"
    /\ error' = [error EXCEPT ![cur] = @ \o TimeoutSuffix(status[cur])]
    /\ pc' = "except"
    /\ UNCHANGED <<tasks, queue, status, hist, cur, child, procs, npass, deqs, nadds,
                   obs, ev, run>>

\* task.status = TaskStatus.FAILED, the last statement of both branches
SetFailed ==
    /\ pc = "except"
    /\ SetStatus(cur, FAILED)
    /\ pc' = "get"
    /\ cur' = NoTask
    /\ UNCHANGED <<tasks, queue, error, child, procs, npass, deqs, nadds, obs, ev,
                   run>>

NextFine ==
    \/ \E t \in Tasks : Add(t)
    \/ Dequeue
    \/ Spawn
    \/ FaultFine
    \/ \E code \in ExitCodes : ExitFine(code)
    \/ TimeoutFine
    \/ TimeoutName
    \/ SetFailed
    \/ OrphanExit
    \/ \E id \in QueryIds : Get(id)
    \/ List

SpecFine == Init /\ [][NextFine]_vars

\* the saturating burst with callers that also read the registry
NextSatApi ==
    \/ \E t \in SatTasks : AddSat(t)
    \/ Dequeue
    \/ Spawn
    \/ Exit(0)
    \/ \E id \in QueryIds : Get(id)
    \/ List

SpecSatApi == Init /\ [][NextSatApi]_vars

TypeOK ==
    /\ pc \in {"get"} \cup Stages \cup HandlerPcs
    /\ Len(queue) <= MaxSize
    /\ deqs \in [Tasks -> Nat]

Range(f) == {f[i] : i \in DOMAIN f}

Terminal == {DONE, FAILED}

\* ---- C1 -----------------------------------------------------------------
\* C1: an add call returns False exactly when 10 tasks are in the queue at
\* the moment of the call, and then leaves the queue as it is; in every other
\* state it returns True and appends the task at the end of the queue. The
\* task the worker has dequeued is not in the queue and does not count.
C1_AddBound ==
    [][nadds' # nadds =>
          /\ (last'.ret = FALSE) <=> (Len(queue) = 10)
          /\ last'.ret = TRUE => queue' = Append(queue, last'.arg)
          /\ last'.ret = FALSE => queue' = queue]_vars

\* an add was refused with 10 tasks queued behind the one that is running
C1_Witness ==
    /\ last.ret = FALSE
    /\ Len(queue) = 10
    /\ cur # NoTask
    /\ nadds > 10

\* ---- C2 -----------------------------------------------------------------
\* the latest add of t returned False
Rejected(t) == rets[t] = "false"

\* t is where a task whose admission failed is said to stay
Shelved(t) ==
    /\ get(IdOf(t)) = t
    /\ t \in list
    /\ status[t] = QUEUED
    /\ error[t] = None
    /\ t \notin Range(queue)
    /\ cur # t

\* C2 as stated: a task whose add returned False is registered, QUEUED with
\* error None, not in the queue and never executed, until it is added again.
C2_Original == \A t \in Tasks : Rejected(t) => Shelved(t)

\* C2 amended: a task whose add returned False and that no add call has
\* admitted is registered, QUEUED with error None, not in the queue and never
\* executed, until it is added again.
C2_NeverAdmitted ==
    \A t \in Tasks : Rejected(t) /\ admits[t] = 0 => Shelved(t)

\* the worker has drained a full queue and the refused task is still there
C2_Witness ==
    \E t \in Tasks :
        /\ Rejected(t)
        /\ admits[t] = 0
        /\ npass = 10
        /\ queue = << >>
        /\ pc = "get"

\* ---- C3 -----------------------------------------------------------------
PosIn(seq, t) == CHOOSE i \in 1 .. Len(seq) : seq[i] = t

LastFailed ==
    \/ ev.kind \in {"timeout", "fault"}
    \/ ev.kind = "exit" /\ ev.code # 0

LastEnded == LastFailed \/ (ev.kind = "exit" /\ pc = "get")

\* C3: the queue changes only by a successful add appending its task at the
\* end and by the worker removing the task at the front, which it does only
\* once the task it ran before is DONE or FAILED; so of two tasks admitted
\* once each, the one admitted first is in a terminal state before the other
\* leaves QUEUED.
C3_Fifo ==
    [][/\ queue' # queue =>
            \/ /\ nadds' # nadds
               /\ last'.ret = TRUE
               /\ queue' = Append(queue, last'.arg)
            \/ /\ nadds' = nadds
               /\ queue # << >>
               /\ queue' = Tail(queue)
               /\ cur = NoTask
               /\ cur' = Head(queue)
               /\ ev.kind # "none" => LastEnded /\ status[ev.task] \in Terminal
       /\ \A a, b \in Tasks :
            /\ a # b
            /\ admits'[a] = 1
            /\ admits'[b] = 1
            /\ PosIn(order', a) < PosIn(order', b)
            /\ status'[b] # QUEUED
            => status'[a] \in Terminal]_vars

\* the task admitted first has ended and the one admitted second is running
C3_Witness ==
    \E a, b \in Tasks :
        /\ a # b
        /\ order = <<a, b>>
        /\ admits[a] = 1
        /\ admits[b] = 1
        /\ status[a] \in Terminal
        /\ cur = b

\* ---- C4 -----------------------------------------------------------------
\* C4 as stated: a task that is DONE and none of whose stages failed has
\* taken the status values QUEUED, PREPROCESSING, TRAINING, RENDERING, DONE,
\* each once and in this order, and its error is None.
C4_Original ==
    \A t \in Tasks :
        status[t] = DONE /\ FAILED \notin Range(hist[t]) =>
            /\ hist[t] = <<QUEUED, PREPROCESSING, TRAINING, RENDERING, DONE>>
            /\ error[t] = None

\* ---- C5 -----------------------------------------------------------------
\* C5: after a timeout in a stage the task is FAILED and its error is
\* "Timeout on preprocessing", "Timeout on training" or "Timeout on
\* rendering" according to the stage that was awaited.
C5_TimeoutError ==
    ev.kind = "timeout" =>
        /\ status[ev.task] = FAILED
        /\ ev.stage = "preprocess" => error[ev.task] = "Timeout on preprocessing"
        /\ ev.stage = "train" => error[ev.task] = "Timeout on training"
        /\ ev.stage = "render" => error[ev.task] = "Timeout on rendering"
        /\ ev.stage \in Stages

\* training has timed out after preprocessing went through
C5_Witness ==
    /\ ev.kind = "timeout"
    /\ ev.stage = "train"
    /\ pc = "get"

\* ---- C6 -----------------------------------------------------------------
TimeoutMsgs ==
    {"Timeout on ", "Timeout on preprocessing", "Timeout on training",
     "Timeout on rendering"}

TimeoutErrorOf(st) ==
    CASE st = "preprocess" -> "Timeout on preprocessing"
      [] st = "train" -> "Timeout on training"
      [] st = "render" -> "Timeout on rendering"
      [] OTHER -> "Timeout on "

\* C6 as stated: while a task is FAILED with the timeout error of a stage,
\* no external process started for that stage of the task is alive.
C6_Original ==
    \A t \in Tasks :
        status[t] = FAILED /\ error[t] \in TimeoutMsgs =>
            ~ \E p \in procs :
                  /\ p.task = t
                  /\ error[t] = TimeoutErrorOf(p.stage)

\* ---- C7 -----------------------------------------------------------------
StageNo(st) ==
    CASE st = "preprocess" -> 1
      [] st = "train" -> 2
      [] st = "render" -> 3
      [] OTHER -> 0

\* C7: after a stage's program exited with a non-zero status the task is
\* FAILED, its error names the command line and the exit status and is no
\* timeout message, the worker is back at the queue and no later stage of
\* this run of the task has been started.
C7_ExitError ==
    ev.kind = "exit" /\ ev.code # 0 =>
        /\ status[ev.task] = FAILED
        /\ error[ev.task] =
              "Program \"" \o CommandLine(ev.task, ev.stage)
                 \o "\" exit with status code " \o ToString(ev.code)
        /\ error[ev.task] \notin TimeoutMsgs
        /\ pc = "get"
        /\ child = NoProc
        /\ \A p \in procs : p.pass = npass => StageNo(p.stage) < StageNo(ev.stage)

\* ns-train has exited with status 1
C7_Witness ==
    /\ ev.kind = "exit"
    /\ ev.code = 1
    /\ ev.stage = "train"
    /\ status[ev.task] = FAILED

\* ---- C8 -----------------------------------------------------------------
\* C8: after a task failed the worker is waiting on the queue again with the
\* task FAILED; it can take the task at the front of the queue, and its next
\* step does so and starts that task at PREPROCESSING, leaving the status
\* and error of every other task as they are.
C8_WorkerSurvives ==
    /\ [](LastFailed =>
            /\ pc = "get"
            /\ status[ev.task] = FAILED
            /\ queue # << >> => ENABLED Dequeue)
    /\ [][LastFailed /\ queue # << >> /\ ev' # ev =>
            /\ ev'.kind = "dequeue"
            /\ cur' = Head(queue)
            /\ status'[Head(queue)] = PREPROCESSING
            /\ \A t \in Tasks \ {Head(queue)} :
                  status'[t] = status[t] /\ error'[t] = error[t]]_vars

\* the task queued behind a failed one has run to DONE
C8_Witness ==
    \E a, b \in Tasks :
        /\ a # b
        /\ order = <<a, b>>
        /\ admits[a] = 1
        /\ admits[b] = 1
        /\ status[a] = FAILED
        /\ status[b] = DONE
        /\ error[b] = None

\* ---- C9 -----------------------------------------------------------------
\* C9 as stated: the error of a task is not None exactly when its status is
\* FAILED.
C9_Original ==
    \A t \in Tasks : (error[t] # None) <=> (status[t] = FAILED)

\* ---- C10 ----------------------------------------------------------------
\* C10 as stated: a status changes only to the next value of QUEUED,
\* PREPROCESSING, TRAINING, RENDERING, DONE, or from PREPROCESSING, TRAINING
\* or RENDERING to FAILED, and once it is DONE or FAILED neither the status
\* nor the error of the task changes again.
C10_Original ==
    [][\A t \in Tasks :
          /\ status'[t] # status[t] =>
                \/ status[t] \notin Terminal /\ status'[t] = status[t] + 1
                \/ /\ status[t] \in {PREPROCESSING, TRAINING, RENDERING}
                   /\ status'[t] = FAILED
          /\ status[t] \in Terminal =>
                status'[t] = status[t] /\ error'[t] = error[t]]_vars

\* ---- C11 ----------------------------------------------------------------
\* C11: with a worker that is resumed whenever it can go on, a task that an
\* add call has admitted is DONE or FAILED again and again: from no state
\* on does it stay QUEUED, PREPROCESSING, TRAINING or RENDERING for ever.
C11_EventuallyTerminal ==
    \A t \in Tasks : (admits[t] > 0) ~> (status[t] \in Terminal)

\* two admitted tasks have both ended and the worker is idle
C11_Witness ==
    /\ \A t \in Tasks : admits[t] > 0 /\ status[t] \in Terminal
    /\ queue = << >>
    /\ pc = "get"

\* ---- C12 ----------------------------------------------------------------
\* C12: an add made with 10 tasks in the queue returns False and leaves the
\* queue alone; an add of a task that was refused before and never admitted, made
\* when fewer than 10 tasks are in the queue (the worker has taken one of
\* the 10 out), returns True and places the task last in the queue with
\* status QUEUED; and the worker takes such a task out of the queue with
\* status QUEUED and starts it at PREPROCESSING.
C12_Readd ==
    [][\A t \in Tasks :
          /\ (/\ nadds' # nadds
              /\ last'.arg = t
              /\ Len(queue) = 10)
             => /\ last'.ret = FALSE
                /\ queue' = queue
          /\ (/\ nadds' # nadds
              /\ last'.arg = t
              /\ rejects[t] > 0
              /\ admits[t] = 0
              /\ Len(queue) < 10)
             => /\ last'.ret = TRUE
                /\ queue' = Append(queue, t)
                /\ status'[t] = QUEUED
                /\ error'[t] = None
          /\ (/\ cur' = t
              /\ cur # t
              /\ rejects[t] > 0
              /\ admits[t] = 1)
             => /\ status[t] = QUEUED
                /\ Head(queue) = t
                /\ status'[t] = PREPROCESSING]_vars

\* 10 adds of one task, the 11th call refused, and after a dequeue the
\* refused task added again, run behind the others and DONE
C12_Witness ==
    \E t, u \in Tasks :
        /\ admits[u] = 10
        /\ rejects[u] = 0
        /\ rejects[t] = 1
        /\ admits[t] = 1
        /\ rets[t] = "true"
        /\ nadds = 12
        /\ hist[t] = <<QUEUED, PREPROCESSING, TRAINING, RENDERING, DONE>>
        /\ npass = 11

\* ---- C13 ----------------------------------------------------------------
\* the Task object an id belongs to if some add call was made with it, no
\* task otherwise
Added(id) ==
    IF \E t \in Tasks : IdOf(t) = id /\ admits[t] + rejects[t] > 0
    THEN CHOOSE t \in Tasks : IdOf(t) = id
    ELSE NoTask

\* C13: get(id) is None for every id no add call was made with, and for an
\* id an add call was made with (accepted or refused) it is the very Task
\* object of that call, whose status and error are the ones the worker
\* writes; the same holds of what the last get call returned.
C13_Get ==
    /\ \A id \in QueryIds : get(id) = Added(id)
    /\ last.op = "get" => last.got = Added(last.id)

\* a get returned a task the worker has failed, while another id is unknown
C13_Witness ==
    /\ last.op = "get"
    /\ last.got # NoTask
    /\ status[last.got] = FAILED
    /\ error[last.got] # None
    /\ \E id \in Ids : get(id) = NoTask

\* ---- C14 ----------------------------------------------------------------
InExecution == {t \in Tasks : status[t] \in {PREPROCESSING, TRAINING, RENDERING}}

\* C14: at most one task has status PREPROCESSING, TRAINING or RENDERING,
\* and it is the task the worker holds; the worker awaits at most one
\* external program, that of the stage it is in for the task it holds
\* (programs it gave up on at a timeout may still be alive, unawaited).
C14_OneAtATime ==
    /\ Cardinality(InExecution) <= 1
    /\ InExecution \subseteq {cur}
    /\ cur = NoTask <=> pc = "get"
    /\ pc = "get" => child = NoProc
    /\ child # NoProc =>
          /\ child = [task |-> cur, stage |-> pc, pass |-> npass]
          /\ child \in procs

\* the worker awaits the program of a task while a task it failed earlier
\* and another add of a task wait behind it
C14_Witness ==
    /\ child # NoProc
    /\ Cardinality(InExecution) = 1
    /\ queue # << >>
    /\ \E t \in Tasks : status[t] = FAILED

\* ---- C15 ----------------------------------------------------------------
\* C15: with every field write of the except branches a step of its own and
\* get/list calls between any two of them, no state has a task with status
\* FAILED and error None, and the step that makes a task FAILED finds the
\* error of this failure already written: a complete timeout message on
\* the timeout path, the exception's text on the other.
C15_ErrorBeforeFailed ==
    /\ [](\A t \in Tasks : status[t] = FAILED => error[t] # None)
    /\ [][\A t \in Tasks :
            (status'[t] = FAILED /\ status[t] # FAILED)
               => /\ t = cur
                  /\ pc = "except"
                  /\ error[t] # None
                  /\ error'[t] = error[t]
                  /\ ev.kind = "timeout" => error[t] = TimeoutMsg(status[t])
                  /\ ev.kind = "exit"
                       => error[t] = ExitMsg(t, ev.stage, ev.code)
                  /\ ev.kind = "fault" => error[t] \in FaultMsgs(ev.stage)]_vars

\* a get call returned the task between the write of its error and the
\* write of FAILED, on its first failure
C15_Witness ==
    /\ pc = "except"
    /\ last.op = "get"
    /\ last.got = cur
    /\ error[cur] # None
    /\ status[cur] # FAILED
    /\ FAILED \notin Range(hist[cur])

\* ---- C16 ----------------------------------------------------------------
StageSeq == <<"preprocess", "train", "render">>

IsPrefix(a, b) == Len(a) <= Len(b) /\ a = SubSeq(b, 1, Len(a))

Failure(e) == e.kind \in {"fault", "timeout"} \/ (e.kind = "exit" /\ e.code # 0)

\* what a step may do to the stages of the current execution
StageStep ==
    /\ (child' # NoProc /\ child = NoProc)
          => /\ child' \notin procs
             /\ child'.task = cur
             /\ child'.stage = run.begun[Len(run.begun)]
    /\ (Failure(ev') /\ ev' # ev) => (run' = run /\ pc' = "get")
    /\ (run' # run)
          => \/ /\ pc = "get"
                /\ run' = [begun |-> <<"preprocess">>, passed |-> << >>]
             \/ /\ ev'.kind = "exit"
                /\ ev'.code = 0
                /\ ev'.stage = pc
                /\ run'.passed = Append(run.passed, pc)
                /\ Len(run'.begun) <= Len(run.begun) + 1

\* C16: within one execution of a task the stages begun are a prefix of
\* preprocess, train, render, each begun once and only after all stages
\* before it returned normally; a stage's program is spawned once, for the
\* stage begun last; and after a failure or timeout at a stage that stage
\* is the last one begun and nothing more is begun for this execution.
C16_NoRetryInOrder ==
    /\ [](/\ IsPrefix(run.begun, StageSeq)
          /\ IsPrefix(run.passed, run.begun)
          /\ Len(run.begun) <= Len(run.passed) + 1
          /\ (pc \in Stages) => run.begun = Append(run.passed, pc)
          /\ (pc = "get" /\ Failure(ev))
                => run.begun = Append(run.passed, ev.stage))
    /\ [][StageStep]_vars

\* train exited with a non-zero status after preprocess succeeded: render
\* was never begun
C16_Witness ==
    /\ pc = "get"
    /\ ev.kind = "exit"
    /\ ev.code # 0
    /\ ev.stage = "train"
    /\ run = [begun |-> <<"preprocess", "train">>, passed |-> <<"preprocess">>]

\* ---- C17 ----------------------------------------------------------------
\* C17: a fault of a stage that is neither a timeout nor a non-zero exit
\* (render finding no .yml file, a program that cannot be spawned) happens
\* with no program started for that stage, leaves the task FAILED with an
\* error that is the fault's text and no timeout message, and leaves the
\* worker waiting on the queue, able to take the next task; in every state
\* the worker is either waiting on the queue or executing a task.
C17_FaultContained ==
    /\ [](/\ pc \in {"get"} \cup Stages
          /\ pc = "get" <=> cur = NoTask
          /\ (pc = "get" /\ queue # << >>) => ENABLED Dequeue
          /\ (ev.kind = "fault")
                => /\ status[ev.task] = FAILED
                   /\ error[ev.task] \in FaultMsgs(ev.stage)
                   /\ error[ev.task] \notin TimeoutMsgs
                   /\ pc = "get"
                   /\ \A p \in procs : ~ (p.pass = npass /\ p.stage = ev.stage))
    /\ [][(ev'.kind = "fault" /\ ev' # ev)
            => /\ child = NoProc
               /\ procs' = procs
               /\ ev'.task = cur
               /\ ev'.stage = pc]_vars

\* render found no config file after preprocess and train succeeded, and
\* another task waits in the queue
C17_Witness ==
    /\ ev.kind = "fault"
    /\ ev.stage = "render"
    /\ error[ev.task] = NoConfigMsg
    /\ status[ev.task] = FAILED
    /\ run.passed = <<"preprocess", "train">>
    /\ queue # << >>
    /\ pc = "get"

\* ---- C18 ----------------------------------------------------------------
RegisteredIds == {i \in Ids : tasks[i] # NoTask}

\* C18: no step removes or replaces an entry of the registry; the registry
\* holds exactly the tasks an add call was made with, accepted or refused,
\* each under its own id; and list() is exactly these tasks, one per
\* registered id, also as the last list call returned it.
C18_RegistryGrows ==
    /\ [](/\ \A i \in RegisteredIds : IdOf(tasks[i]) = i
          /\ list = {t \in Tasks : admits[t] + rejects[t] > 0}
          /\ Cardinality(list) = Cardinality(RegisteredIds)
          /\ last.op = "list" => last.listed = list)
    /\ [][\A i \in RegisteredIds : tasks'[i] = tasks[i]]_vars

\* a list call returned a task that ran to DONE together with a task that
\* the full queue refused and that was never admitted
C18_Witness ==
    /\ last.op = "list"
    /\ \E t, u \in last.listed :
          /\ status[t] = DONE
          /\ rejects[u] > 0
          /\ admits[u] = 0

\* ---- C19 ----------------------------------------------------------------
\* what C19 allows a step to write
FrameStep ==
    /\ (last' # last \/ nadds' # nadds) => (status' = status /\ error' = error)
    /\ (last' # last /\ last'.op \in {"get", "list"})
          => (tasks' = tasks /\ queue' = queue)
    /\ \A t \in Tasks :
          (status'[t] # status[t] \/ error'[t] # error[t]) => t \in {cur, cur'}

\* C19 as stated: add, get and list leave every status and error unchanged,
\* get and list leave the registry and the queue unchanged, status and error
\* change only for the task the worker has dequeued, and a task that is
\* still in the queue has status QUEUED. (id, created_at and the execution
\* strategy of a Task object are fixed functions of the object.)
C19_Original ==
    /\ [][FrameStep]_vars
    /\ [](\A t \in Range(queue) : status[t] = QUEUED)

\* ---- C20 ----------------------------------------------------------------
\* what a call of add, get or list leaves of the worker
CallStep ==
    (last' # last \/ nadds' # nadds)
       => /\ <<pc, cur, child, procs, npass, ev>>' = <<pc, cur, child, procs, npass, ev>>
          /\ (last'.op = "add" /\ full(queue))
                => (last'.ret = FALSE /\ queue' = queue)

\* C20: in every state, whatever the worker is suspended on and however
\* full the queue is, add (while callers have calls left), get and list
\* can each be taken, and each is one step that does not move the worker;
\* an add on a full queue returns False in that step.
C20_NeverWaits ==
    /\ [](/\ \A t \in SatTasks : nadds < MaxSize + MaxOver => ENABLED AddSat(t)
          /\ \A id \in QueryIds : ENABLED Get(id)
          /\ ENABLED List)
    /\ [][CallStep]_vars

\* an add was refused at once while the queue was full and the worker was
\* awaiting a stage's program
C20_Witness ==
    /\ full(queue)
    /\ child # NoProc
    /\ pc \in Stages
    /\ last.op = "add"
    /\ last.ret = FALSE
    /\ rejects[last.arg] > 0

\* ---- C21 ----------------------------------------------------------------
\* the number of entries of t in the queue q
Entries(q, t) == Cardinality({i \in 1 .. Len(q) : q[i] = t})

\* C21: for every task, the number of times the worker has dequeued it
\* never exceeds the number of add calls for it that returned True: it is
\* that number less the entries of the task still in the queue, so the two
\* are equal once the queue is empty and the worker is idle. A refused add
\* adds no entry and so no pass.
C21_OnePassPerAdmit ==
    \A t \in Tasks :
        /\ deqs[t] <= admits[t]
        /\ deqs[t] + Entries(queue, t) = admits[t]
        /\ (queue = << >> /\ pc = "get") => deqs[t] = admits[t]
        /\ (admits[t] = 0) => (deqs[t] = 0 /\ status[t] = QUEUED)

\* the queue is drained and the worker idle after a task was admitted more
\* than once and also refused, while another was only ever refused
C21_Witness ==
    /\ queue = << >>
    /\ pc = "get"
    /\ \E t, u \in Tasks :
          /\ admits[t] > 1
          /\ rejects[t] > 0
          /\ deqs[t] = admits[t]
          /\ rejects[u] > 0
          /\ admits[u] = 0
          /\ deqs[u] = 0

\* ---- C22 ----------------------------------------------------------------
\* the tasks the worker has or will have in hand
InFlight == Range(queue) \cup ({cur} \ {NoTask})

\* what an add call leaves in the registry
RegisterStep ==
    (nadds' # nadds)
       => /\ tasks'[IdOf(last'.arg)] = last'.arg
          /\ Range(queue') \subseteq {tasks'[i] : i \in Ids}

\* C22: Task objects have distinct ids (IdOf is one-to-one), and then every
\* task in the queue or in the worker's hands is the entry of the registry
\* under its id, so get(id) returns that very object; every add call, also
\* one the full queue refuses, leaves its task registered, so no task is
\* ever in the queue without being registered.
C22_InFlightRegistered ==
    /\ [](/\ \A t, u \in Tasks : IdOf(t) = IdOf(u) => t = u
          /\ \A t \in InFlight : tasks[IdOf(t)] = t /\ get(IdOf(t)) = t)
    /\ [][RegisterStep]_vars

\* with the queue full and a task in training, an add of a task never
\* admitted was refused; get returns the refused task and the running one
C22_Witness ==
    /\ last.op = "add"
    /\ last.ret = FALSE
    /\ admits[last.arg] = 0
    /\ get(IdOf(last.arg)) = last.arg
    /\ cur # NoTask
    /\ cur # last.arg
    /\ status[cur] = TRAINING
    /\ get(IdOf(cur)) = cur

\* ---- C23 ----------------------------------------------------------------
\* what a step may do to the error of a task
ErrorStep ==
    \A t \in Tasks :
        /\ (error[t] # None) => (error'[t] # None)
        /\ (error'[t] # error[t])
              => /\ t = cur
                 /\ Failure(ev')
                 /\ ev'.task = t
                 /\ error'[t] # None
                 /\ status'[t] = FAILED
        /\ (status'[t] # status[t] /\ status'[t] # FAILED)
              => error'[t] = error[t]

\* C23: no step sets an error back to None; an error changes only in a step
\* in which the worker's await of a stage ended with a timeout, a fault or
\* a non-zero exit, and only for the task the worker holds, which that step
\* leaves FAILED; a step that moves a status to PREPROCESSING, TRAINING,
\* RENDERING or DONE leaves the error as it is.
C23_ErrorKept == [][ErrorStep]_vars

\* a task that failed once was run again to DONE and still carries the
\* error of its failure
C23_Witness ==
    \E t \in Tasks :
        /\ status[t] = DONE
        /\ error[t] # None
        /\ FAILED \in Range(hist[t])
        /\ deqs[t] = 2
====
